---- MODULE Spec2Model ----
(***************************************************************************)
(* FlashcardLM: the spaced-repetition scheduler (services/srsService.ts)   *)
(* and the review-session engine (components/ReviewSession.tsx) together   *)
(* with the part of the host (App.tsx) that owns the card store and the    *)
(* progress store.                                                         *)
(*                                                                         *)
(* Numbers.  The easiness factor is a float in the source; it is kept here *)
(* in hundredths (2.5 is 250), exact up to the rounding of floats.  Time   *)
(* is counted in whole days: Date.now() is `now`, and                      *)
(* "now.setDate(now.getDate() + n)" is now + n.                            *)
(***************************************************************************)
EXTENDS Integers, Sequences, FiniteSets, TLC

VARIABLES
    \* ---- App.tsx state
    view,               \* 'home' | 'review'
    studyMode,          \* 'standard' | 'cram'
    cards,              \* data.cards of the active deck, in store order
    reviewProgress,     \* reviewProgress[`${deck}-${studyMode}`]: <<>> (absent) or <<p>>
    editingCard,        \* the card of the open edit dialog: <<>> (no dialog) or <<c>>
    \* ---- ReviewSession.tsx state (useState)
    queue,
    currentCardIndex,
    isFlipped,
    visibleOcclusions,
    isInitialized,
    isShuffled,
    \* ---- React scheduling
    fxPending,          \* the passive effects of the last commit have not run yet
    \* ---- environment
    now,                \* Date.now(), in days
    \* ---- bookkeeping of the exploration
    nGrades,            \* ratings given so far (bounds the schedule values)
    last,               \* what the last step did (callbacks it emitted, state it saw)
    \* ---- the scheduler on its own (SpecSRS)
    srsStart,           \* the schedule state the card started from
    srsPrev,            \* the schedule state before the last rating
    srsCur,             \* the schedule state now
    srsQs               \* the ratings applied so far, oldest first

vars == << view, studyMode, cards, reviewProgress, editingCard, queue,
           currentCardIndex, isFlipped, visibleOcclusions, isInitialized, isShuffled,
           fxPending, now, nGrades, last, srsStart, srsPrev, srsCur, srsQs >>

sessionVars == << view, studyMode, cards, reviewProgress, editingCard, queue,
                  currentCardIndex, isFlipped, visibleOcclusions, isInitialized,
                  isShuffled, fxPending, now, nGrades, last >>

srsVars == << srsStart, srsPrev, srsCur, srsQs >>

(***************************************************************************)
(* Bounds of the exploration.                                              *)
(***************************************************************************)
MaxCards == 2
MaxNow == 1
MaxGrades == 1
MaxSRSGrades == 3
MaxBuildCards == 5
MaxQueueCards == 3
JumpSteps == 4

(***************************************************************************)
(* Scheduler: services/srsService.ts                                       *)
(***************************************************************************)

\* The floor of the easiness factor, 1.3, in hundredths.
MinEfactor == 130

\* Math.round(x / 100) for x >= 0: the nearest integer, halves upwards.
RoundHundredths(x) == (x + 50) \div 100

\* 0.1 - (5 - quality) * (0.08 + (5 - quality) * 0.02), in hundredths.
EfactorChange(quality) == 10 - (5 - quality) * (8 + (5 - quality) * 2)

\* Variants of NextInterval: one keeps the interval on a failed rating, one
\* gives the second and the third pass the same 6 days.
NextIntervalStale(currentSrs, quality) ==
    IF quality >= 3
    THEN IF currentSrs.repetition = 0 THEN 1
         ELSE IF currentSrs.repetition = 1 THEN 6
         ELSE RoundHundredths(currentSrs.interval * currentSrs.efactor)
    ELSE currentSrs.interval

NextIntervalOffByOne(currentSrs, quality) ==
    IF quality >= 3
    THEN IF currentSrs.repetition = 0 THEN 1
         ELSE IF currentSrs.repetition <= 2 THEN 6
         ELSE RoundHundredths(currentSrs.interval * currentSrs.efactor)
    ELSE 1

\* A variant of NextInterval that multiplies by the easiness factor as adjusted
\* by the rating itself.
NextIntervalNewEfactor(currentSrs, quality) ==
    LET adjusted == currentSrs.efactor + EfactorChange(quality)
        efactor == IF adjusted < MinEfactor THEN MinEfactor ELSE adjusted
    IN  IF quality >= 3
        THEN IF currentSrs.repetition = 0 THEN 1
             ELSE IF currentSrs.repetition = 1 THEN 6
             ELSE RoundHundredths(currentSrs.interval * efactor)
        ELSE 1

NextInterval(currentSrs, quality) ==
    IF quality >= 3
    THEN IF currentSrs.repetition = 0 THEN 1
         ELSE IF currentSrs.repetition = 1 THEN 6
         ELSE RoundHundredths(currentSrs.interval * currentSrs.efactor)
    ELSE 1

NextRepetition(currentSrs, quality) ==
    IF quality >= 3 THEN currentSrs.repetition + 1 ELSE 0

\* A variant of NextEfactor without the floor.
NextEfactorUnclamped(currentSrs, quality) ==
    currentSrs.efactor + EfactorChange(quality)

NextEfactor(currentSrs, quality) ==
    LET efactor == currentSrs.efactor + EfactorChange(quality)
    IN  IF efactor < MinEfactor THEN MinEfactor ELSE efactor

\* A variant of calculateNewSRS that makes the card due at the time of the rating.
calculateNewSRSDueToday(currentSrs, quality, today) ==
    [ interval   |-> NextInterval(currentSrs, quality),
      repetition |-> NextRepetition(currentSrs, quality),
      efactor    |-> NextEfactor(currentSrs, quality),
      dueDate    |-> today ]

calculateNewSRS(currentSrs, quality, today) ==
    LET interval == NextInterval(currentSrs, quality)
    IN  [ interval   |-> interval,
          repetition |-> NextRepetition(currentSrs, quality),
          efactor    |-> NextEfactor(currentSrs, quality),
          dueDate    |-> today + interval ]

\* Date.now() when the module was loaded.
AppLoadTime == 0

initialSRS ==
    [ interval |-> 0, repetition |-> 0, efactor |-> 250, dueDate |-> AppLoadTime ]

(***************************************************************************)
(* Cards and the stores: types.ts, App.tsx                                 *)
(***************************************************************************)
Modes == {"standard", "cram"}

CardIds == 1..MaxCards

\* Flashcard.type and Flashcard.occlusions: card 1 is an image-occlusion card
\* with two masked rectangles, the others are basic cards.
TypeOf(id) == IF id = 1 THEN "image_occlusion" ELSE "basic"

OcclusionsOf(id) == IF id = 1 THEN <<1, 2>> ELSE <<>>

OcclusionIds == {1, 2}

\* Flashcard.createdAt: card 1 was created after the others, which were created
\* together (an imported file gives all its cards the same Date.now()).
CreatedAtOf(id) == IF id = 1 THEN 2 ELSE 1

Flashcard(id, srs) ==
    [ id |-> id, type |-> TypeOf(id), front |-> 0, occlusions |-> OcclusionsOf(id),
      srs |-> srs, createdAt |-> CreatedAtOf(id) ]

\* ReviewProgress
Progress(cardIds, currentIndex, shuffled) ==
    [ cardIds |-> cardIds, currentIndex |-> currentIndex, isShuffled |-> shuffled ]

\* cards.find(c => c.id === id): <<>> when undefined, else <<the first match>>.
RECURSIVE FindCard(_, _)
FindCard(cs, id) ==
    IF cs = <<>> THEN <<>>
    ELSE IF Head(cs).id = id THEN <<Head(cs)>>
    ELSE FindCard(Tail(cs), id)

Ids(cs) == [i \in DOMAIN cs |-> cs[i].id]

\* Array.prototype.sort((a, b) => a.createdAt - b.createdAt): a stable sort.
RECURSIVE InsertByCreatedAt(_, _)
InsertByCreatedAt(sorted, c) ==
    IF sorted = <<>> THEN <<c>>
    ELSE IF Head(sorted).createdAt <= c.createdAt
         THEN <<Head(sorted)>> \o InsertByCreatedAt(Tail(sorted), c)
         ELSE <<c>> \o sorted

RECURSIVE SortByCreatedAt(_)
SortByCreatedAt(cs) ==
    IF cs = <<>> THEN <<>>
    ELSE InsertByCreatedAt(SortByCreatedAt(SubSeq(cs, 1, Len(cs) - 1)), cs[Len(cs)])

\* const currentCard = queue[currentCardIndex]: <<>> when undefined.
CardAt(q, index) == IF index + 1 \in DOMAIN q THEN <<q[index + 1]>> ELSE <<>>

currentCard == CardAt(queue, currentCardIndex)

\* handleUpdateCard: prev.cards.map(c => c.id === updatedCard.id ? updatedCard : c)
handleUpdateCard(cs, updatedCard) ==
    [i \in DOMAIN cs |-> IF cs[i].id = updatedCard.id THEN updatedCard ELSE cs[i]]

\* handleAddCards: [...prev.cards, ...newCards]
handleAddCards(cs, newCards) == cs \o newCards

\* handleDeleteCard: prev.cards.filter(c => c.id !== cardId)
handleDeleteCard(cs, cardId) == SelectSeq(cs, LAMBDA c : c.id # cardId)

\* handleSaveProgress / handleClearProgress, on the key of the running session.
handleSaveProgress(rp, progress) == <<progress>>

\* A variant of handleClearProgress that leaves the entry in place.
handleClearProgressKeeps(rp) == rp

handleClearProgress(rp) == <<>>

(***************************************************************************)
(* ReviewSession.tsx: the effects                                          *)
(***************************************************************************)

\* initialProgress.cardIds.map(id => cards.find(c => c.id === id)).filter(c => !!c)
RECURSIVE RestoreQueue(_, _)
RestoreQueue(cardIds, cs) ==
    IF cardIds = <<>> THEN <<>>
    ELSE FindCard(cs, Head(cardIds)) \o RestoreQueue(Tail(cardIds), cs)

\* A variant of CanRestore that insists on every stored identity resolving
\* and on a position within the queue.
CanRestoreChecked(restoredQueue, progress) ==
    /\ Len(restoredQueue) = Len(progress.cardIds)
    /\ Len(restoredQueue) > 0
    /\ progress.currentIndex >= 0
    /\ progress.currentIndex < Len(restoredQueue)

\* The test that decides between resuming and building afresh.
CanRestore(restoredQueue, progress) ==
    /\ Len(restoredQueue) > 0
    /\ progress.currentIndex < Len(restoredQueue)

\* A variant of CardsToReview that leaves out the cards due exactly now.
CardsToReviewStrict(cs, mode, today) ==
    IF mode = "cram" THEN cs
    ELSE SelectSeq(cs, LAMBDA c : c.srs.dueDate < today)

\* The cards a fresh build selects, in store order.
CardsToReview(cs, mode, today) ==
    IF mode = "cram" THEN cs
    ELSE SelectSeq(cs, LAMBDA c : c.srs.dueDate <= today)

\* The Initialization effect.  The fresh branch sets the queue only (and only
\* to a non-empty list): position and shuffle flag keep their values.
Initialization(cs, mode, initialProgress, today, index, shuffled) ==
    LET restoredQueue == RestoreQueue(initialProgress[1].cardIds, cs)
    IN  IF initialProgress # <<>> /\ CanRestore(restoredQueue, initialProgress[1])
        THEN [ queue |-> restoredQueue,
               currentCardIndex |-> initialProgress[1].currentIndex,
               isShuffled |-> initialProgress[1].isShuffled,
               resumed |-> TRUE ]
        ELSE [ queue |-> SortByCreatedAt(CardsToReview(cs, mode, today)),
               currentCardIndex |-> index,
               isShuffled |-> shuffled,
               resumed |-> FALSE ]

\* Variants of ReconcileQueue: one leaves the queue as it is, one also takes in
\* the cards of the store that are not queued.
ReconcileQueueKeeps(prevQueue, cs) == prevQueue

ReconcileQueueSplices(prevQueue, cs) ==
    [i \in DOMAIN prevQueue |->
        IF FindCard(cs, prevQueue[i].id) # <<>>
        THEN FindCard(cs, prevQueue[i].id)[1]
        ELSE prevQueue[i]]
    \o SelectSeq(cs, LAMBDA c : \A i \in DOMAIN prevQueue : prevQueue[i].id # c.id)

\* The reconcile effect on [cards]: setQueue(prev => prev.map(...)), with the
\* cards and the queue length of the render the effect belongs to.
ReconcileQueue(prevQueue, cs) ==
    [i \in DOMAIN prevQueue |->
        IF FindCard(cs, prevQueue[i].id) # <<>>
        THEN FindCard(cs, prevQueue[i].id)[1]
        ELSE prevQueue[i]]

ReconcileEffect(prevQueue) ==
    IF Len(queue) > 0 THEN ReconcileQueue(prevQueue, cards) ELSE prevQueue

\* A variant of Snapshot that does not record the shuffle flag.
SnapshotWithoutShuffle(q, index, shuffled) == Progress(Ids(q), index, FALSE)

\* The Auto-Save Progress effect: the snapshot of the render it belongs to.
Snapshot(q, index, shuffled) == Progress(Ids(q), index, shuffled)

\* A variant of AutoSaveEffect that saves only while the store has no entry.
AutoSaveEffectOnce(rp) ==
    IF isInitialized /\ Len(queue) > 0 /\ rp = <<>>
    THEN handleSaveProgress(rp, Snapshot(queue, currentCardIndex, isShuffled))
    ELSE rp

AutoSaveEffect(rp) ==
    IF isInitialized /\ Len(queue) > 0
    THEN handleSaveProgress(rp, Snapshot(queue, currentCardIndex, isShuffled))
    ELSE rp

(***************************************************************************)
(* React scheduling.                                                       *)
(*                                                                         *)
(* A handler runs with the values of the last committed render.  The       *)
(* passive effects of that render run later; if they have not run when a   *)
(* handler is called, React runs them at the start of the render the       *)
(* handler causes, after the handler has queued its updates (late), and    *)
(* otherwise their updates are queued before the handler's (not late).     *)
(* Queued updates are applied in the order they were queued.  While the    *)
(* queue is non-empty every render leaves effects pending: the auto-save   *)
(* effect depends on onSaveProgress, which App recreates on every render,  *)
(* and saving makes App render.                                            *)
(***************************************************************************)
Lateness == IF fxPending THEN BOOLEAN ELSE {FALSE}

\* reviewProgress after a handler that does (clears) or does not call onClearProgress.
ProgressAfter(late, clears) ==
    LET afterFx(rp) == IF fxPending THEN AutoSaveEffect(rp) ELSE rp
        afterHandler(rp) == IF clears THEN handleClearProgress(rp) ELSE rp
    IN  IF late THEN afterFx(afterHandler(reviewProgress))
        ELSE afterHandler(afterFx(reviewProgress))

\* queue after a handler that does (sets) or does not call setQueue(newQueue).
QueueAfter(late, sets, newQueue) ==
    LET afterFx(q) == IF fxPending THEN ReconcileEffect(q) ELSE q
        afterHandler(q) == IF sets THEN newQueue ELSE q
    IN  IF late THEN afterFx(afterHandler(queue))
        ELSE afterHandler(afterFx(queue))

\* What a step records in `last`.
Step(op) ==
    [ op |-> op, quality |-> 0, late |-> FALSE, index |-> 0, length |-> 0,
      flipped |-> FALSE, card |-> <<>>, updates |-> <<>>, deletes |-> <<>>,
      clears |-> 0, finishes |-> 0, fresh |-> FALSE, today |-> 0,
      adds |-> <<>>, after |-> "none", arg |-> 0, round |-> 0 ]

Seen(op, late) ==
    [ Step(op) EXCEPT !.late = late, !.index = currentCardIndex, !.length = Len(queue),
                      !.flipped = isFlipped, !.card = currentCard, !.today = now ]

\* The same for a step that moves along the queue or does nothing.
SeenAt(op) ==
    [ Step(op) EXCEPT !.index = currentCardIndex, !.length = Len(queue),
                      !.flipped = isFlipped ]

\* A handler that returns without calling a setter or a callback: no render.
NoRender ==
    UNCHANGED << view, studyMode, cards, reviewProgress, queue, currentCardIndex,
                 isFlipped, visibleOcclusions, isInitialized, isShuffled, fxPending,
                 now, nGrades >>

\* useState initial values: the state of a ReviewSession that is not mounted,
\* and of one that has just been mounted.
Unmounted ==
    /\ queue' = <<>>
    /\ currentCardIndex' = 0
    /\ isFlipped' = FALSE
    /\ visibleOcclusions' = <<>>
    /\ isInitialized' = FALSE
    /\ isShuffled' = FALSE

\* The branches of the render, in the order they are tested.
ScreenQueueFirst ==
    IF Len(queue) = 0 /\ isInitialized THEN "caught_up"
    ELSE IF Len(cards) = 0 THEN "empty_deck"
    ELSE IF ~isInitialized \/ currentCard = <<>> THEN "spinner"
    ELSE "card"

Screen ==
    IF Len(cards) = 0 THEN "empty_deck"
    ELSE IF Len(queue) = 0 /\ isInitialized THEN "caught_up"
    ELSE IF ~isInitialized \/ currentCard = <<>> THEN "spinner"
    ELSE "card"

\* A variant of FaceAfterMove that leaves the card on the face it shows.
FaceAfterMoveKeeps(flipped) == flipped

\* setIsFlipped(false), which every handler that moves to another card calls.
FaceAfterMove(flipped) == FALSE

\* The branch of the render that shows the card and its controls.
MainUI == isInitialized /\ Len(cards) > 0 /\ currentCard # <<>>

(***************************************************************************)
(* App.tsx: the host                                                       *)
(***************************************************************************)

\* No dialog lies over the screen: the pointer reaches the controls below.
NoDialog == editingCard = <<>>

\* handleSelectDeck: mounts a ReviewSession keyed by deck and mode.  A behaviour
\* studies the deck in one mode, so that there is one session key.
SelectDeck ==
    /\ NoDialog
    /\ view = "home"
    /\ view' = "review"
    /\ Unmounted
    /\ fxPending' = TRUE
    /\ last' = Step("select")
    /\ UNCHANGED << studyMode, cards, reviewProgress, now, nGrades, editingCard, srsVars >>

\* onFinish / the logo: setView('home') unmounts the session.  Pending effects
\* run before the render that unmounts it.
GoHome(late) ==
    /\ NoDialog
    /\ view = "review"
    /\ late \in Lateness
    /\ view' = "home"
    /\ reviewProgress' = ProgressAfter(late, FALSE)
    /\ Unmounted
    /\ fxPending' = FALSE
    /\ last' = Step("home")
    /\ UNCHANGED << studyMode, cards, now, nGrades, editingCard, srsVars >>

\* The snapshots a library file can carry for a key (handleImportData merges
\* parsed.reviewProgress into the store unvalidated).  The import is the first
\* thing that happens, if it happens.
ImportedProgress ==
    { Progress(<<2, 1, 3>>, index, TRUE) : index \in {-1, 1, 3} }

handleImportData(progress) ==
    /\ NoDialog
    /\ view = "home"
    /\ last.op = "none"
    /\ reviewProgress' = <<progress>>
    /\ last' = Step("import")
    /\ UNCHANGED << view, studyMode, cards, queue, currentCardIndex, isFlipped,
                    visibleOcclusions, isInitialized, isShuffled, fxPending, now,
                    nGrades, editingCard, srsVars >>

\* The clock: days pass between sessions, and while the learner is caught up.
Tick ==
    /\ view = "home" \/ (view = "review" /\ Screen = "caught_up")
    /\ now < MaxNow
    /\ now' = now + 1
    /\ UNCHANGED << view, studyMode, cards, reviewProgress, queue, currentCardIndex,
                    isFlipped, visibleOcclusions, isInitialized, isShuffled, fxPending,
                    nGrades, last, editingCard, srsVars >>

(***************************************************************************)
(* ReviewSession.tsx: effects as steps                                     *)
(***************************************************************************)

\* The effects of a render with isInitialized = false: the reconcile effect sees
\* an empty queue, the Initialization effect runs, the auto-save effect sees
\* isInitialized = false.
Initialize ==
    /\ view = "review"
    /\ ~isInitialized
    /\ fxPending
    /\ LET r == Initialization(cards, studyMode, reviewProgress, now,
                               currentCardIndex, isShuffled)
       IN  /\ queue' = r.queue
           /\ currentCardIndex' = r.currentCardIndex
           /\ isShuffled' = r.isShuffled
           /\ last' = [Seen("init", FALSE) EXCEPT !.fresh = ~r.resumed,
                                                   !.after = last.op]
    /\ isInitialized' = TRUE
    /\ fxPending' = TRUE
    /\ UNCHANGED << view, studyMode, cards, reviewProgress, isFlipped,
                    visibleOcclusions, now, nGrades, editingCard, srsVars >>

\* The effects of a render with isInitialized = true, when no handler intervenes:
\* reconcile, Initialization (returns at once), auto-save.  `last.round` tells
\* the renders of a run of renders caused by effects alone apart (each has a
\* cards array and an onSaveProgress of its own), by their parity.
Effects ==
    /\ view = "review"
    /\ isInitialized
    /\ fxPending
    /\ queue' = ReconcileEffect(queue)
    /\ reviewProgress' = AutoSaveEffect(reviewProgress)
    /\ fxPending' = (Len(queue) > 0)
    /\ last' = [Step("effects") EXCEPT
                  !.after = last.op,
                  !.round = IF last.op = "effects" THEN 1 - last.round ELSE 0]
    /\ UNCHANGED << view, studyMode, cards, currentCardIndex, isFlipped,
                    visibleOcclusions, isInitialized, isShuffled, now, nGrades,
                    editingCard, srsVars >>

(***************************************************************************)
(* ReviewSession.tsx: the handlers                                         *)
(***************************************************************************)

\* The four ratings of the buttons and of the keys 1-4.
Ratings == {1, 3, 4, 5}

\* A variant of revealAllOcclusions that shows no further rectangle.
revealShownOnly(card, shown) == shown

\* if (currentCard?.occlusions) setVisibleOcclusions(currentCard.occlusions.map(o => o.id)),
\* which is reached for a card that is neither basic nor cloze.
revealAllOcclusions(card, shown) ==
    IF card.type = "image_occlusion" THEN card.occlusions ELSE shown

\* Space / Enter, a click on the middle of the card, the "flip" hint:
\* setIsFlipped(true), through revealAllOcclusions for an image-occlusion card.
\* Nothing happens unless (!isFlipped && currentCard).
Reveal ==
    /\ view = "review"
    /\ isInitialized
    /\ last' = [SeenAt("reveal") EXCEPT !.arg = Len(visibleOcclusions)]
    /\ IF ~isFlipped /\ currentCard # <<>>
       THEN /\ isFlipped' = TRUE
            /\ visibleOcclusions' = revealAllOcclusions(currentCard[1], visibleOcclusions)
            /\ queue' = QueueAfter(FALSE, FALSE, queue)
            /\ reviewProgress' = ProgressAfter(FALSE, FALSE)
            /\ fxPending' = TRUE
            /\ UNCHANGED << view, studyMode, cards, currentCardIndex, isInitialized,
                            isShuffled, now, nGrades >>
       ELSE NoRender
    /\ UNCHANGED << editingCard, srsVars >>

\* A variant of HasNext that lets the position run past the end.
HasNextAlways(index, length) == TRUE

\* currentCardIndex < queue.length - 1
HasNext(index, length) == index < length - 1

\* A variant of HasPrev that lets the position run below 0.
HasPrevAlways(index) == TRUE

\* currentCardIndex > 0
HasPrev(index) == index > 0

\* ArrowRight / D, a swipe, a click on the right of the card: nothing happens
\* at the last position.
handleNext ==
    /\ view = "review"
    /\ isInitialized
    /\ last' = SeenAt("next")
    /\ IF HasNext(currentCardIndex, Len(queue))
       THEN /\ isFlipped' = FaceAfterMove(isFlipped)
            /\ visibleOcclusions' = <<>>
            /\ currentCardIndex' = currentCardIndex + 1
            /\ queue' = QueueAfter(FALSE, FALSE, queue)
            /\ reviewProgress' = ProgressAfter(FALSE, FALSE)
            /\ fxPending' = TRUE
            /\ UNCHANGED << view, studyMode, cards, isInitialized, isShuffled, now,
                            nGrades >>
       ELSE NoRender
    /\ UNCHANGED << editingCard, srsVars >>

\* ArrowLeft / A, a swipe, a click on the left of the card: nothing happens at
\* position 0.
handlePrev ==
    /\ view = "review"
    /\ isInitialized
    /\ last' = SeenAt("prev")
    /\ IF HasPrev(currentCardIndex)
       THEN /\ isFlipped' = FaceAfterMove(isFlipped)
            /\ visibleOcclusions' = <<>>
            /\ currentCardIndex' = currentCardIndex - 1
            /\ queue' = QueueAfter(FALSE, FALSE, queue)
            /\ reviewProgress' = ProgressAfter(FALSE, FALSE)
            /\ fxPending' = TRUE
            /\ UNCHANGED << view, studyMode, cards, isInitialized, isShuffled, now,
                            nGrades >>
       ELSE NoRender
    /\ UNCHANGED << editingCard, srsVars >>

\* The places of the progress bar a click can land on: x / rect.width, clamped
\* to [0, 1], is n / JumpSteps.
JumpPlaces == 0..JumpSteps

\* A variant of JumpIndex that rounds to the nearest position.
JumpIndexRounded(n, length) == (2 * n * (length - 1) + JumpSteps) \div (2 * JumpSteps)

\* Math.floor(percentage * (queue.length - 1))
JumpIndex(n, length) == (n * (length - 1)) \div JumpSteps

\* handleProgressClick: a click on the progress bar of the card screen.  Nothing
\* happens when the place maps to the current position.
handleProgressClick(n) ==
    /\ NoDialog
    /\ view = "review"
    /\ MainUI
    /\ n \in JumpPlaces
    /\ last' = [SeenAt("jump") EXCEPT !.arg = n]
    /\ LET newIndex == JumpIndex(n, Len(queue))
       IN  IF newIndex # currentCardIndex
           THEN /\ isFlipped' = FaceAfterMove(isFlipped)
                /\ visibleOcclusions' = <<>>
                /\ currentCardIndex' = newIndex
                /\ queue' = QueueAfter(FALSE, FALSE, queue)
                /\ reviewProgress' = ProgressAfter(FALSE, FALSE)
                /\ fxPending' = TRUE
                /\ UNCHANGED << view, studyMode, cards, isInitialized, isShuffled, now,
                                nGrades >>
           ELSE NoRender
    /\ UNCHANGED << editingCard, srsVars >>

\* visibleOcclusions.includes(occ.id)
Includes(shown, occId) == \E i \in DOMAIN shown : shown[i] = occId

\* A variant of ShowOcclusion that adds the rectangle whether shown or not.
ShowOcclusionAgain(shown, occId) == Append(shown, occId)

\* prev => [...prev, occ.id], for a rectangle that is not shown yet.
ShowOcclusion(shown, occId) ==
    IF Includes(shown, occId) THEN shown ELSE Append(shown, occId)

\* A click on one masked rectangle of an image-occlusion card, on either face
\* of the card.  Nothing happens when the rectangle is already shown.
revealOcclusion(occId) ==
    /\ NoDialog
    /\ view = "review"
    /\ MainUI
    /\ currentCard[1].type = "image_occlusion"
    /\ Includes(currentCard[1].occlusions, occId)
    /\ last' = [SeenAt("region") EXCEPT !.arg = occId]
    /\ IF ShowOcclusion(visibleOcclusions, occId) # visibleOcclusions
       THEN /\ visibleOcclusions' = ShowOcclusion(visibleOcclusions, occId)
            /\ queue' = QueueAfter(FALSE, FALSE, queue)
            /\ reviewProgress' = ProgressAfter(FALSE, FALSE)
            /\ fxPending' = TRUE
            /\ UNCHANGED << view, studyMode, cards, currentCardIndex, isFlipped,
                            isInitialized, isShuffled, now, nGrades >>
       ELSE NoRender
    /\ UNCHANGED << editingCard, srsVars >>

\* A variant of RatingEnabled that lets a rating through on either face.
RatingAlwaysEnabled == TRUE

\* The rating buttons are rendered, and the keys 1-4 act, only when isFlipped.
RatingEnabled == isFlipped

\* A variant of RatedCard that leaves the schedule as it was.
RatedCardKeepsSchedule(card, rating, today) == card

\* { ...currentCard, srs: calculateNewSRS(currentCard.srs, rating) }
RatedCard(card, rating, today) ==
    [card EXCEPT !.srs = calculateNewSRS(card.srs, rating, today)]

\* currentCardIndex === queue.length - 1
AtLastPosition(index, length) == index = length - 1

\* The keys 1-4 and the rating buttons.  Nothing happens when the rating is not
\* enabled, or (if (!currentCard) return) when there is no current card.
handleRating(rating, late) ==
    /\ view = "review"
    /\ isInitialized
    /\ late \in Lateness
    /\ IF ~RatingEnabled \/ currentCard = <<>>
       THEN /\ ~late
            /\ last' = SeenAt("grade")
            /\ NoRender
       ELSE LET updated == RatedCard(currentCard[1], rating, now)
                atEnd == AtLastPosition(currentCardIndex, Len(queue))
            IN  /\ nGrades < MaxGrades
                /\ nGrades' = nGrades + 1
                /\ cards' = handleUpdateCard(cards, updated)
                /\ reviewProgress' = ProgressAfter(late, atEnd)
                /\ last' = [Seen("grade", late) EXCEPT
                              !.quality = rating,
                              !.updates = <<updated>>,
                              !.clears = IF atEnd THEN 1 ELSE 0,
                              !.finishes = IF atEnd THEN 1 ELSE 0]
                /\ IF atEnd
                   THEN /\ view' = "home"
                        /\ Unmounted
                        /\ fxPending' = FALSE
                   ELSE /\ view' = view
                        /\ queue' = QueueAfter(late, FALSE, queue)
                        /\ isInitialized' = isInitialized
                        /\ isShuffled' = isShuffled
                        /\ fxPending' = TRUE
                        /\ IF HasNext(currentCardIndex, Len(queue))
                           THEN /\ isFlipped' = FaceAfterMove(isFlipped)
                                /\ visibleOcclusions' = <<>>
                                /\ currentCardIndex' = currentCardIndex + 1
                           ELSE UNCHANGED << isFlipped, visibleOcclusions,
                                             currentCardIndex >>
    /\ UNCHANGED << studyMode, now, editingCard, srsVars >>

\* Fisher-Yates: for i from length - 1 down to 1, swap positions i and js[i],
\* where js[i] = Math.floor(Math.random() * (i + 1)) is any of 0..i.
Swap(q, i, j) == [q EXCEPT ![i + 1] = q[j + 1], ![j + 1] = q[i + 1]]

RECURSIVE FisherYates(_, _, _)
FisherYates(q, i, js) ==
    IF i < 1 THEN q ELSE FisherYates(Swap(q, i, js[i]), i - 1, js)

RandomDraws(length) ==
    { js \in [1..(length - 1) -> 0..(length - 1)] : \A i \in DOMAIN js : js[i] <= i }

\* newQueue.findIndex(c => c.id === id), -1 when there is none.
RECURSIVE FindIndexFrom(_, _, _)
FindIndexFrom(q, id, i) ==
    IF i > Len(q) THEN -1
    ELSE IF q[i].id = id THEN i - 1
    ELSE FindIndexFrom(q, id, i + 1)

\* A variant of FindIndex that points at the head of the queue.
FindIndexHead(q, id) == IF q = <<>> THEN -1 ELSE 0

FindIndex(q, id) == FindIndexFrom(q, id, 1)

\* currentCard?.id, 0 when undefined.
CurrentId == IF currentCard = <<>> THEN 0 ELSE currentCard[1].id

\* A variant of QueueIsEmpty with which no handler returns early.
QueueIsEmptyNever(q) == FALSE

\* queue.length === 0
QueueIsEmpty(q) == Len(q) = 0

\* The shuffle button of the card screen.  As an operation of the engine it
\* can also be asked for on an empty queue, where it returns at once.
toggleShuffle ==
    /\ NoDialog
    /\ view = "review"
    /\ isInitialized
    /\ MainUI \/ Len(queue) = 0
    /\ IF QueueIsEmpty(queue)
       THEN /\ last' = SeenAt("shuffle")
            /\ NoRender
       ELSE /\ \E late \in Lateness, js \in RandomDraws(Len(queue)) :
               LET newIsShuffled == ~isShuffled
                   newQueue == IF newIsShuffled
                               THEN FisherYates(queue, Len(queue) - 1, js)
                               ELSE SortByCreatedAt(queue)
                   newIndex == FindIndex(newQueue, CurrentId)
               IN  /\ queue' = QueueAfter(late, TRUE, newQueue)
                   /\ isShuffled' = newIsShuffled
                   /\ currentCardIndex' = IF newIndex # -1 THEN newIndex ELSE 0
                   /\ reviewProgress' = ProgressAfter(late, FALSE)
                   /\ last' = Seen("shuffle", late)
            /\ fxPending' = TRUE
            /\ UNCHANGED << view, studyMode, cards, isFlipped, visibleOcclusions,
                            isInitialized, now, nGrades >>
    /\ UNCHANGED << editingCard, srsVars >>

\* A variant of IndexAfterDelete without the floor at 0.
IndexAfterDeleteNoFloor(index, newLength) ==
    IF index >= newLength THEN newLength - 1 ELSE index

\* if (currentCardIndex >= newQueue.length)
\*     setCurrentCardIndex(Math.max(0, newQueue.length - 1))
IndexAfterDelete(index, newLength) ==
    IF index >= newLength
    THEN (IF newLength - 1 > 0 THEN newLength - 1 ELSE 0)
    ELSE index

\* The confirmed deletion of the current card.  As an operation of the engine
\* it can also be asked for on an empty queue, where (if (!currentCard) return)
\* it returns at once.
executeDelete(late) ==
    /\ NoDialog
    /\ view = "review"
    /\ isInitialized
    /\ MainUI \/ Len(queue) = 0
    /\ late \in Lateness
    /\ IF currentCard = <<>>
       THEN /\ ~late
            /\ last' = SeenAt("delete")
            /\ NoRender
       ELSE /\ LET cardId == currentCard[1].id
                   newQueue == SelectSeq(queue, LAMBDA c : c.id # cardId)
               IN  /\ cards' = handleDeleteCard(cards, cardId)
                   /\ queue' = QueueAfter(late, TRUE, newQueue)
                   /\ currentCardIndex' =
                         IndexAfterDelete(currentCardIndex, Len(newQueue))
                   /\ last' = [Seen("delete", late) EXCEPT !.deletes = <<cardId>>]
            /\ isFlipped' = FaceAfterMove(isFlipped)
            /\ visibleOcclusions' = <<>>
            /\ reviewProgress' = ProgressAfter(late, FALSE)
            /\ fxPending' = TRUE
            /\ UNCHANGED << view, studyMode, isInitialized, isShuffled, now,
                            nGrades >>
    /\ UNCHANGED << editingCard, srsVars >>

\* "Review All Anyway", on the caught-up screen of a standard session.
handleRestart(late) ==
    /\ NoDialog
    /\ view = "review"
    /\ Screen = "caught_up"
    /\ studyMode = "standard"
    /\ late \in Lateness
    /\ reviewProgress' = ProgressAfter(late, TRUE)
    /\ isInitialized' = FALSE
    /\ queue' = <<>>
    /\ currentCardIndex' = 0
    /\ fxPending' = TRUE
    /\ last' = [Seen("restart", late) EXCEPT !.clears = 1]
    /\ UNCHANGED << view, studyMode, cards, isFlipped, visibleOcclusions,
                    isShuffled, now, nGrades, editingCard, srsVars >>

\* The identities in use: a new card (uuidv4) gets none of them.
UsedIds ==
    { cards[i].id : i \in DOMAIN cards } \cup { queue[i].id : i \in DOMAIN queue } \cup
    (IF reviewProgress = <<>> THEN {}
     ELSE { reviewProgress[1].cardIds[i] : i \in DOMAIN reviewProgress[1].cardIds })

\* The card the add-card dialog of the header saves: a basic card, never
\* rated, created now, which is later than every card of the deck.
NewCard(id) ==
    [Flashcard(id, initialSRS) EXCEPT !.createdAt = CreatedAtOf(1) + 1]

\* handleSaveCard with no editingCard, during a session: handleAddCards.
handleSaveCard(id) ==
    /\ NoDialog
    /\ view = "review"
    /\ isInitialized
    /\ id \notin UsedIds
    /\ TypeOf(id) = "basic"
    /\ cards' = handleAddCards(cards, << NewCard(id) >>)
    /\ queue' = QueueAfter(FALSE, FALSE, queue)
    /\ reviewProgress' = ProgressAfter(FALSE, FALSE)
    /\ fxPending' = TRUE
    /\ last' = [Step("add") EXCEPT !.adds = <<id>>]
    /\ UNCHANGED << view, studyMode, currentCardIndex, isFlipped, visibleOcclusions,
                    isInitialized, isShuffled, now, nGrades, editingCard, srsVars >>

\* The edit button of the card screen: handleEdit calls onEditCard(currentCard),
\* and openEditCardModal keeps that card in editingCard and shows the dialog.
\* The dialog does not take the focus (autoFocus={!initialCard}), so the keys of
\* the session keep acting below it.
openEditCardModal ==
    /\ NoDialog
    /\ view = "review"
    /\ MainUI
    /\ editingCard' = currentCard
    /\ queue' = QueueAfter(FALSE, FALSE, queue)
    /\ reviewProgress' = ProgressAfter(FALSE, FALSE)
    /\ fxPending' = TRUE
    /\ last' = [Seen("edit", FALSE) EXCEPT !.after = last.op]
    /\ UNCHANGED << view, studyMode, cards, currentCardIndex, isFlipped,
                    visibleOcclusions, isInitialized, isShuffled, now, nGrades,
                    srsVars >>

\* A variant of EditedCard that takes the schedule from the store.
EditedCardFromStore(initialCard, front, cs) ==
    [initialCard EXCEPT
        !.type = "basic",
        !.front = front,
        !.srs = IF FindCard(cs, initialCard.id) # <<>>
                THEN FindCard(cs, initialCard.id)[1].srs
                ELSE initialCard.srs]

\* handleSubmit of the dialog for a card that is not a cloze card:
\* { ...initialCard, type: 'basic', front, back, srs }, where srs is the state
\* the dialog took from initialCard.srs when it was opened.
EditedCard(initialCard, front, cs) ==
    [initialCard EXCEPT !.type = "basic", !.front = front, !.srs = initialCard.srs]

\* The texts a learner can give the front of a card.
Fronts == {0, 1}

\* "Save" in the edit dialog: handleSubmit, then handleSaveCard with editingCard
\* (handleUpdateCard of the one card), then onClose.
handleSubmitEdit(front) ==
    /\ editingCard # <<>>
    /\ front \in Fronts
    /\ LET newCard == EditedCard(editingCard[1], front, cards)
       IN  /\ cards' = handleUpdateCard(cards, newCard)
           /\ last' = [Step("save") EXCEPT !.after = last.op,
                                           !.card = editingCard,
                                           !.updates = << newCard >>]
    /\ editingCard' = <<>>
    /\ IF view = "review"
       THEN /\ queue' = QueueAfter(FALSE, FALSE, queue)
            /\ reviewProgress' = ProgressAfter(FALSE, FALSE)
            /\ fxPending' = TRUE
       ELSE UNCHANGED << queue, reviewProgress, fxPending >>
    /\ UNCHANGED << view, studyMode, currentCardIndex, isFlipped, visibleOcclusions,
                    isInitialized, isShuffled, now, nGrades, srsVars >>

\* "Cancel", the cross: onClose alone.
closeCardModal ==
    /\ editingCard # <<>>
    /\ editingCard' = <<>>
    /\ last' = [Step("close") EXCEPT !.after = last.op]
    /\ IF view = "review"
       THEN /\ queue' = QueueAfter(FALSE, FALSE, queue)
            /\ reviewProgress' = ProgressAfter(FALSE, FALSE)
            /\ fxPending' = TRUE
       ELSE UNCHANGED << queue, reviewProgress, fxPending >>
    /\ UNCHANGED << view, studyMode, cards, currentCardIndex, isFlipped,
                    visibleOcclusions, isInitialized, isShuffled, now, nGrades,
                    srsVars >>

(***************************************************************************)
(* The session engine with its host: Spec                                  *)
(***************************************************************************)
\* A card never rated, and a card rated "good" once on the day the app loaded.
InitialSchedules == { initialSRS, calculateNewSRS(initialSRS, 4, AppLoadTime) }

\* The decks of at most n cards: cards 1..k in store order, each never rated or
\* rated once.
Decks(n) ==
    UNION { { [i \in 1..k |-> Flashcard(i, srs[i])] : srs \in [1..k -> InitialSchedules] } :
            k \in 0..n }

InitialDecks == Decks(MaxCards)

SRSIdle ==
    /\ srsStart = initialSRS
    /\ srsPrev = initialSRS
    /\ srsCur = initialSRS
    /\ srsQs = <<>>

InitWith(decks) ==
    /\ view = "home"
    /\ studyMode \in Modes
    /\ cards \in decks
    /\ reviewProgress = <<>>
    /\ editingCard = <<>>
    /\ queue = <<>>
    /\ currentCardIndex = 0
    /\ isFlipped = FALSE
    /\ visibleOcclusions = <<>>
    /\ isInitialized = FALSE
    /\ isShuffled = FALSE
    /\ fxPending = FALSE
    /\ now = AppLoadTime
    /\ nGrades = 0
    /\ last = Step("none")
    /\ SRSIdle

Init == InitWith(InitialDecks)

Next ==
    \/ SelectDeck
    \/ \E late \in BOOLEAN : GoHome(late)
    \/ \E progress \in ImportedProgress : handleImportData(progress)
    \/ Tick
    \/ Initialize
    \/ Effects
    \/ Reveal
    \/ handleNext
    \/ handlePrev
    \/ \E rating \in Ratings, late \in BOOLEAN : handleRating(rating, late)
    \/ toggleShuffle
    \/ \E late \in BOOLEAN : executeDelete(late)
    \/ \E late \in BOOLEAN : handleRestart(late)
    \/ \E id \in CardIds : handleSaveCard(id)
    \/ \E n \in JumpPlaces : handleProgressClick(n)
    \/ \E occId \in OcclusionIds : revealOcclusion(occId)

Spec == Init /\ [][Next]_vars

(***************************************************************************)
(* The session engine with a progress store that only the engine writes:   *)
(* SpecEngine                                                              *)
(***************************************************************************)
NextEngine ==
    \/ SelectDeck
    \/ \E late \in BOOLEAN : GoHome(late)
    \/ Tick
    \/ Initialize
    \/ Effects
    \/ Reveal
    \/ handleNext
    \/ handlePrev
    \/ \E rating \in Ratings, late \in BOOLEAN : handleRating(rating, late)
    \/ toggleShuffle
    \/ \E late \in BOOLEAN : executeDelete(late)
    \/ \E late \in BOOLEAN : handleRestart(late)
    \/ \E id \in CardIds : handleSaveCard(id)
    \/ \E n \in JumpPlaces : handleProgressClick(n)
    \/ \E occId \in OcclusionIds : revealOcclusion(occId)

SpecEngine == Init /\ [][NextEngine]_vars

(***************************************************************************)
(* A session in which React runs the effects of every render: SpecSettle   *)
(*                                                                         *)
(* React runs the passive effects of a commit before anything else can     *)
(* render, so an effect that is pending does run: weak fairness of the two *)
(* effect steps.  The learner may act or not.                              *)
(***************************************************************************)
NextSettle ==
    \/ SelectDeck
    \/ Initialize
    \/ Effects
    \/ Reveal
    \/ handleNext
    \/ handlePrev
    \/ \E late \in BOOLEAN : executeDelete(late)

SpecSettle ==
    /\ Init
    /\ [][NextSettle]_vars
    /\ WF_vars(Initialize)
    /\ WF_vars(Effects)

(***************************************************************************)
(* A session with the edit dialog of the host: SpecEdit                    *)
(*                                                                         *)
(* While the dialog is open the session stays mounted below it and its     *)
(* keyboard shortcuts act (reveal, next, previous, the ratings); the        *)
(* controls that need the pointer do not.                                  *)
(***************************************************************************)
NextEdit ==
    \/ SelectDeck
    \/ Initialize
    \/ Effects
    \/ Reveal
    \/ handleNext
    \/ handlePrev
    \/ \E rating \in Ratings, late \in BOOLEAN : handleRating(rating, late)
    \/ openEditCardModal
    \/ \E front \in Fronts : handleSubmitEdit(front)
    \/ closeCardModal

SpecEdit == Init /\ [][NextEdit]_vars

(***************************************************************************)
(* Opening a deck, on larger decks: SpecBuild                              *)
(***************************************************************************)
InitBuild == InitWith(Decks(MaxBuildCards))

NextBuild ==
    \/ \E progress \in ImportedProgress : handleImportData(progress)
    \/ Tick
    \/ SelectDeck
    \/ Initialize

SpecBuild == InitBuild /\ [][NextBuild]_vars

(***************************************************************************)
(* Moving along, reordering and shrinking the queue, on larger decks:      *)
(* SpecQueue                                                               *)
(***************************************************************************)
InitQueue == InitWith(Decks(MaxQueueCards))

NextQueue ==
    \/ SelectDeck
    \/ Initialize
    \/ Effects
    \/ Reveal
    \/ handleNext
    \/ handlePrev
    \/ toggleShuffle
    \/ \E late \in BOOLEAN : executeDelete(late)
    \/ \E n \in JumpPlaces : handleProgressClick(n)

SpecQueue == InitQueue /\ [][NextQueue]_vars

(***************************************************************************)
(* The scheduler on its own: SpecSRS                                       *)
(*                                                                         *)
(* One card's schedule, from any prior state (the edit dialog and imported *)
(* files can set interval, repetition and efactor to anything, also an     *)
(* efactor below the floor), rated with any quality 0..5.                  *)
(***************************************************************************)
Qualities == 0..5

PriorSchedules ==
    { initialSRS } \cup
    { [ interval |-> i, repetition |-> r, efactor |-> e, dueDate |-> AppLoadTime ] :
        i \in {0, 1, 5, 6, 15}, r \in 0..3, e \in {100, 130, 136, 250, 270} }

SessionIdle ==
    /\ view = "home"
    /\ studyMode = "standard"
    /\ cards = <<>>
    /\ reviewProgress = <<>>
    /\ editingCard = <<>>
    /\ queue = <<>>
    /\ currentCardIndex = 0
    /\ isFlipped = FALSE
    /\ visibleOcclusions = <<>>
    /\ isInitialized = FALSE
    /\ isShuffled = FALSE
    /\ fxPending = FALSE
    /\ now = AppLoadTime
    /\ nGrades = 0
    /\ last = Step("none")

InitSRS ==
    /\ SessionIdle
    /\ srsStart \in PriorSchedules
    /\ srsPrev = srsStart
    /\ srsCur = srsStart
    /\ srsQs = <<>>

Rate(quality) ==
    /\ Len(srsQs) < MaxSRSGrades
    /\ srsPrev' = srsCur
    /\ srsCur' = calculateNewSRS(srsCur, quality, now)
    /\ srsQs' = Append(srsQs, quality)
    /\ UNCHANGED << srsStart, sessionVars >>

NextSRS ==
    \/ \E quality \in Qualities : Rate(quality)
    \/ Tick

SpecSRS == InitSRS /\ [][NextSRS]_vars

\* The quality of the last rating, once there is one.
Rated == srsQs # <<>>

LastQuality == srsQs[Len(srsQs)]

(***************************************************************************)
(* Claims about the scheduler                                              *)
(***************************************************************************)

\* C6: whatever the prior schedule state, a rating with quality < 3 returns
\* repetition = 0 and interval = 1.
C6_FailResets ==
    (Rated /\ LastQuality < 3) => (srsCur.repetition = 0 /\ srsCur.interval = 1)

C6_Witness ==
    /\ Rated
    /\ LastQuality < 3
    /\ srsPrev.repetition >= 2
    /\ srsPrev.interval > 1
    /\ srsCur.interval = 1

\* C7: whatever the prior schedule state and the quality in 0..5, the easiness
\* factor returned is at least 1.3, hence also after any sequence of ratings.
C7_EfactorFloor ==
    Rated => srsCur.efactor >= 130

C7_Witness ==
    /\ Rated
    /\ srsPrev.efactor + EfactorChange(LastQuality) < 130
    /\ srsCur.efactor = 130

\* C8: a rating with quality >= 3 increases repetition by exactly 1 and sets the
\* interval to 1 if repetition was 0, to 6 if it was 1, and otherwise to the
\* integer nearest to interval * efactor (halves upwards); three ratings of 4 on
\* a fresh card give (interval 1, repetition 1), (6, 2), and then
\* round(6 * efactor) with repetition 3.
C8_PassAdvances ==
    /\ (Rated /\ LastQuality >= 3) =>
          /\ srsCur.repetition = srsPrev.repetition + 1
          /\ srsPrev.repetition = 0 => srsCur.interval = 1
          /\ srsPrev.repetition = 1 => srsCur.interval = 6
          /\ srsPrev.repetition >= 2 =>
                /\ 100 * srsCur.interval - 50 <= srsPrev.interval * srsPrev.efactor
                /\ srsPrev.interval * srsPrev.efactor < 100 * srsCur.interval + 50
    /\ (srsStart = initialSRS /\ srsQs = <<4>>) =>
          (srsCur.interval = 1 /\ srsCur.repetition = 1)
    /\ (srsStart = initialSRS /\ srsQs = <<4, 4>>) =>
          (srsCur.interval = 6 /\ srsCur.repetition = 2)
    /\ (srsStart = initialSRS /\ srsQs = <<4, 4, 4>>) =>
          /\ srsCur.repetition = 3
          /\ 100 * srsCur.interval - 50 <= 6 * srsCur.efactor
          /\ 6 * srsCur.efactor < 100 * srsCur.interval + 50

C8_Witness ==
    /\ srsStart = initialSRS
    /\ srsQs = <<4, 4, 4>>
    /\ srsCur.interval = 15
    /\ srsCur.repetition = 3

(***************************************************************************)
(* Claims about the session engine                                         *)
(***************************************************************************)

\* The state right after the Initialization effect ran with a stored progress.
InitializedFrom == last.op = "init" /\ reviewProgress # <<>>

Resolves(id) == \E i \in DOMAIN cards : cards[i].id = id

\* The stored identities that still resolve in the card set, in stored order.
Survivors == SelectSeq(reviewProgress[1].cardIds, Resolves)

HasDangling == \E i \in DOMAIN reviewProgress[1].cardIds : ~Resolves(reviewProgress[1].cardIds[i])

\* The identities a fresh build has to select at the time of the build.
Selected ==
    { cards[i].id : i \in { j \in DOMAIN cards :
                              studyMode = "cram" \/ cards[j].srs.dueDate <= last.today } }

QueuedIds == { queue[i].id : i \in DOMAIN queue }

FreshlyBuilt ==
    /\ last.fresh
    /\ QueuedIds = Selected
    /\ Len(queue) = Cardinality(Selected)
    /\ currentCardIndex = 0

\* A rating that found a current card.
Graded == last.op = "grade" /\ last.card # <<>>

GradedAtLast == Graded /\ last.index = last.length - 1

GradedBeforeLast == Graded /\ last.index # last.length - 1

\* C1: a rating at the last queue position emits the card update, clears the
\* persisted progress and signals completion exactly once, and the progress
\* store holds no entry for the session key afterwards.
C1_LastGradeClears ==
    GradedAtLast =>
        /\ Len(last.updates) = 1
        /\ last.clears = 1
        /\ last.finishes = 1
        /\ view = "home"
        /\ reviewProgress = <<>>

\* C2: once the engine has persisted its progress, initializing a session from
\* the persisted snapshot with the same card set restores the same queue order,
\* the same position and the same shuffle flag.
C2_ResumeRoundTrip ==
    (view = "review" /\ last.op = "effects" /\ isInitialized /\ Len(queue) > 0) =>
        LET r == Initialization(cards, studyMode, reviewProgress, now, 0, FALSE)
        IN  /\ reviewProgress # <<>>
            /\ r.resumed
            /\ Ids(r.queue) = Ids(queue)
            /\ r.currentCardIndex = currentCardIndex
            /\ r.isShuffled = isShuffled

C2_Witness ==
    /\ view = "review"
    /\ last.op = "effects"
    /\ isShuffled
    /\ Ids(queue) = <<1, 2>>
    /\ currentCardIndex = 1
    /\ reviewProgress = << Progress(<<1, 2>>, 1, TRUE) >>

\* C3 as stated: a stored progress with a dangling identity is discarded and a
\* fresh queue is built.
C3_DanglingDiscarded ==
    (InitializedFrom /\ HasDangling) => FreshlyBuilt

\* C3 as amended: dangling identities are dropped; the session resumes with the
\* surviving cards in stored order when one survives and the stored position is
\* below their number, and is built afresh otherwise.
C3_DanglingDropped ==
    (InitializedFrom /\ HasDangling) =>
        IF Len(Survivors) > 0 /\ reviewProgress[1].currentIndex < Len(Survivors)
        THEN /\ ~last.fresh
             /\ Ids(queue) = Survivors
             /\ currentCardIndex = reviewProgress[1].currentIndex
             /\ isShuffled = reviewProgress[1].isShuffled
        ELSE FreshlyBuilt

C3_Witness ==
    /\ InitializedFrom
    /\ HasDangling
    /\ ~last.fresh
    /\ Ids(queue) = <<2, 1>>
    /\ currentCardIndex = 1

\* C4: a stored position that is negative, or equal to or beyond the length of
\* the restored queue, makes Initialize build a fresh queue at position 0.
C4_OutOfRangeFresh ==
    ( /\ InitializedFrom
      /\ \/ reviewProgress[1].currentIndex < 0
         \/ reviewProgress[1].currentIndex >= Len(Survivors) ) => FreshlyBuilt

\* C5: a fresh build queues exactly the cards of the deck in cram mode, and
\* exactly the cards with dueDate <= now in standard mode.
C5_FreshSelection ==
    (last.op = "init" /\ last.fresh) =>
        /\ QueuedIds = Selected
        /\ Len(queue) = Cardinality(Selected)

NotDue(today) == { i \in DOMAIN cards : cards[i].srs.dueDate > today }

C5_Witness ==
    /\ last.op = "init"
    /\ last.fresh
    /\ studyMode = "standard"
    /\ Len(cards) = 5
    /\ Cardinality(NotDue(last.today)) = 3
    /\ Len(queue) = 2

\* C9: a card update, and a completion signal caused by a rating, is emitted
\* only if the current card was revealed when the rating was given.
C9_GradeNeedsRevealed ==
    (last.op = "grade" /\ (last.updates # <<>> \/ last.finishes > 0)) => last.flipped

C9_Witness ==
    /\ Graded
    /\ Len(last.updates) = 1
    /\ last.flipped

\* C10: a rating at a position that is not the last emits exactly one card
\* update, the current card with its schedule replaced by the scheduler's result
\* and nothing else changed, the store takes it, the position increases by 1,
\* the card is unrevealed, and progress is neither cleared nor completion
\* signalled.
C10_GradeAdvances ==
    GradedBeforeLast =>
        /\ Len(last.updates) = 1
        /\ last.updates[1] =
              [last.card[1] EXCEPT
                 !.srs = calculateNewSRS(last.card[1].srs, last.quality, last.today)]
        /\ FindCard(cards, last.card[1].id) = last.updates
        /\ currentCardIndex = last.index + 1
        /\ ~isFlipped
        /\ visibleOcclusions = <<>>
        /\ last.clears = 0
        /\ last.finishes = 0
        /\ view = "review"
        /\ reviewProgress # <<>>

C10_Witness ==
    /\ GradedBeforeLast
    /\ last.quality = 4
    /\ last.index = 0
    /\ currentCardIndex = 1
    /\ last.updates[1].srs.repetition = 1

(***************************************************************************)
(* Claims about the operations on the queue                                *)
(***************************************************************************)

\* The step is one of operation op (the clock leaves `last` as it was).
Does(op) == last'.op = op /\ now' = now

\* The identities of a queue without one identity.
IdsWithout(q, id) == SelectSeq(Ids(q), LAMBDA i : i # id)

Min(a, b) == IF a < b THEN a ELSE b

Max(a, b) == IF a > b THEN a ELSE b

\* C11: deleting the current card emits one deletion request for its identity,
\* removes exactly that card from the queue keeping the order of the others, and
\* leaves position = min(old position, new length - 1) floored at 0, so that the
\* previously-next card becomes current, and the only card leaves an empty queue
\* at position 0.
C11_DeleteClamps ==
    [][ (Does("delete") /\ last'.deletes # <<>>) =>
          /\ currentCard # <<>>
          /\ last'.deletes = << currentCard[1].id >>
          /\ Ids(queue') = IdsWithout(queue, currentCard[1].id)
          /\ Len(queue') = Len(queue) - 1
          /\ currentCardIndex' = Max(0, Min(currentCardIndex, Len(queue') - 1))
          /\ currentCardIndex < Len(queue) - 1 =>
                queue'[currentCardIndex' + 1].id = queue[currentCardIndex + 2].id
          /\ Len(queue) = 1 => (queue' = <<>> /\ currentCardIndex' = 0)
      ]_vars

C11_Witness ==
    /\ last.op = "delete"
    /\ last.deletes # <<>>
    /\ last.length = 3
    /\ last.index = 1
    /\ Len(queue) = 2
    /\ currentCardIndex = 1

\* How often an identity occurs in a queue.
Occurrences(q, id) == Cardinality({ i \in DOMAIN q : q[i].id = id })

\* C12: toggling shuffle, on or off, on a non-empty queue yields a permutation of
\* the same cards, none lost and none duplicated, and the card that was current
\* is the current card afterwards, whatever the random source draws.
C12_ShufflePermutes ==
    [][ (Does("shuffle") /\ Len(queue) > 0) =>
          /\ isShuffled' = ~isShuffled
          /\ Len(queue') = Len(queue)
          /\ \A i \in DOMAIN queue :
                Occurrences(queue', queue[i].id) = Occurrences(queue, queue[i].id)
          /\ currentCard # <<>>
          /\ CardAt(queue', currentCardIndex') # <<>>
          /\ CardAt(queue', currentCardIndex')[1].id = currentCard[1].id
      ]_vars

C12_Witness ==
    /\ last.op = "shuffle"
    /\ last.length = 3
    /\ isShuffled
    /\ currentCard # <<>>
    /\ last.card = currentCard
    /\ last.index = 0
    /\ currentCardIndex = 2

\* Where a card stands in the store.
StorePos(id) == CHOOSE k \in DOMAIN cards : cards[k].id = id

\* The order of a fresh build: creation timestamp ascending, cards that share a
\* timestamp in the order of the store.
InFreshOrder(q) ==
    \A i, j \in DOMAIN q :
        i < j =>
            \/ q[i].createdAt < q[j].createdAt
            \/ /\ q[i].createdAt = q[j].createdAt
               /\ StorePos(q[i].id) < StorePos(q[j].id)

\* C13: each time shuffle is turned off the queue is in creation-timestamp
\* ascending order and equal to the order of a fresh build restricted to the
\* cards still queued, also when cards share a creation timestamp.
C13_UnshuffleFreshOrder ==
    (view = "review" /\ last.op = "shuffle" /\ last.length > 0 /\ ~isShuffled) =>
        InFreshOrder(queue)

\* The store holds a card of this identity.
InStore(id) == \E k \in DOMAIN cards : cards[k].id = id

\* C14: reconciling replaces each queued card that matches by identity with the
\* store's version and changes nothing else: length, order of identities,
\* position, shuffle flag and reveal state stay, and (second conjunct, on the
\* store without any one queued card) a queued card that is not in the store
\* stays in the queue as it is.
C14_ReconcileInPlace ==
    /\ [][ Does("effects") =>
             /\ Len(queue') = Len(queue)
             /\ Ids(queue') = Ids(queue)
             /\ currentCardIndex' = currentCardIndex
             /\ isShuffled' = isShuffled
             /\ isFlipped' = isFlipped
             /\ visibleOcclusions' = visibleOcclusions
             /\ \A i \in DOMAIN queue :
                   queue'[i] = IF InStore(queue[i].id)
                               THEN cards[StorePos(queue[i].id)]
                               ELSE queue[i]
         ]_vars
    /\ [](\A i \in DOMAIN queue :
             LET without == handleDeleteCard(cards, queue[i].id)
                 reconciled == ReconcileQueue(queue, without)
             IN  /\ Ids(reconciled) = Ids(queue)
                 /\ reconciled[i] = queue[i]
                 /\ \A j \in DOMAIN queue :
                       queue[j].id # queue[i].id =>
                          reconciled[j] = ReconcileQueue(queue, cards)[j])

C14_Witness ==
    /\ view = "review"
    /\ last.op = "effects"
    /\ last.after = "grade"
    /\ Len(queue) = 2
    /\ queue[1].srs.efactor = 260
    /\ queue[1] = cards[StorePos(queue[1].id)]

\* The set of identities of a queue.
IdSet(q) == { q[i].id : i \in DOMAIN q }

\* C15: while a session stays initialized (between an Initialize and the next
\* Restart) the set of queued identities never gains a member, also when cards
\* are added to the store, and only a deletion changes it.
C15_QueueNeverGrows ==
    [][ (view = "review" /\ isInitialized /\ view' = "review" /\ isInitialized') =>
          /\ IdSet(queue') \subseteq IdSet(queue)
          /\ Len(queue') <= Len(queue)
          /\ IdSet(queue') # IdSet(queue) => Does("delete")
      ]_vars

C15_Witness ==
    /\ view = "review"
    /\ last.op = "effects"
    /\ last.after = "add"
    /\ Len(queue) > 0
    /\ \E k \in DOMAIN cards :
          /\ cards[k].createdAt = CreatedAtOf(1) + 1
          /\ cards[k].id \notin IdSet(queue)
          /\ cards[k].srs.dueDate <= now

\* C16: while the session is initialized with a non-empty queue, once the
\* effects of an operation have run the progress store holds, for the session
\* key, the identities of the queue in order, the position and the shuffle flag.
C16_ProgressFollows ==
    (view = "review" /\ isInitialized /\ Len(queue) > 0 /\ last.op = "effects") =>
        /\ reviewProgress # <<>>
        /\ reviewProgress[1].cardIds = Ids(queue)
        /\ reviewProgress[1].currentIndex = currentCardIndex
        /\ reviewProgress[1].isShuffled = isShuffled

C16_Witness ==
    /\ view = "review"
    /\ last.op = "effects"
    /\ last.after = "delete"
    /\ Len(queue) = 1
    /\ reviewProgress = << Progress(Ids(queue), currentCardIndex, isShuffled) >>

\* C17: Restart discards the persisted progress and returns the engine to
\* Uninitialized with an empty queue at position 0, and the Initialize that
\* follows does not resume but builds the queue fresh from the current card set
\* by the mode's rule.
C17_RestartBuildsFresh ==
    /\ last.op = "restart" =>
          /\ last.clears = 1
          /\ reviewProgress = <<>>
          /\ ~isInitialized
          /\ queue = <<>>
          /\ currentCardIndex = 0
    /\ (last.op = "init" /\ last.after = "restart") =>
          /\ reviewProgress = <<>>
          /\ isInitialized
          /\ FreshlyBuilt

C17_Witness ==
    /\ last.op = "init"
    /\ last.after = "restart"
    /\ last.fresh
    /\ Len(queue) > 0
    /\ Len(queue) < Len(cards)

\* C18: Advance(next) increases and Advance(previous) decreases the position by
\* exactly 1 when the result stays within 0..length-1; at the last position
\* Advance(next), and at position 0 Advance(previous), is a no-op that leaves
\* position, queue and reveal state unchanged.
C18_AdvanceWithinBounds ==
    [][ /\ Does("next") =>
            /\ currentCardIndex + 1 \in 0..(Len(queue) - 1) =>
                   currentCardIndex' = currentCardIndex + 1
            /\ (Len(queue) > 0 /\ currentCardIndex = Len(queue) - 1) =>
                   UNCHANGED << currentCardIndex, queue, isFlipped, visibleOcclusions >>
        /\ Does("prev") =>
            /\ currentCardIndex - 1 \in 0..(Len(queue) - 1) =>
                   currentCardIndex' = currentCardIndex - 1
            /\ currentCardIndex = 0 =>
                   UNCHANGED << currentCardIndex, queue, isFlipped, visibleOcclusions >>
      ]_vars

C18_Witness ==
    /\ last.op = "next"
    /\ last.length >= 2
    /\ last.index = last.length - 1
    /\ last.flipped
    /\ currentCardIndex = last.index
    /\ isFlipped

\* C19: with an empty queue, Grade, Reveal, Delete and shuffle toggling are
\* no-ops: none of them changes the engine state, the card store or the stored
\* progress, and none emits a card update, a deletion request, a progress clear
\* or a completion signal.
C19_EmptyQueueNoOps ==
    [][ ( /\ view = "review"
          /\ isInitialized
          /\ Len(queue) = 0
          /\ Does("grade") \/ Does("reveal") \/ Does("delete") \/ Does("shuffle") ) =>
            /\ UNCHANGED << view, queue, currentCardIndex, isFlipped, visibleOcclusions,
                            isInitialized, isShuffled, cards, reviewProgress >>
            /\ last'.updates = <<>>
            /\ last'.deletes = <<>>
            /\ last'.clears = 0
            /\ last'.finishes = 0
      ]_vars

C19_Witness ==
    /\ view = "review"
    /\ isInitialized
    /\ last.op = "shuffle"
    /\ last.length = 0
    /\ Len(queue) = 0
    /\ Len(cards) > 0
    /\ ~isShuffled

\* C20: the two empty outcomes are distinguishable in every reachable state: a
\* deck with zero cards yields the empty-deck outcome, a deck that has cards but
\* an empty initialized queue yields the caught-up outcome, and neither is
\* reported for the other.
C20_EmptyOutcomesDistinct ==
    view = "review" =>
        /\ Len(cards) = 0 => Screen = "empty_deck"
        /\ (Len(cards) > 0 /\ isInitialized /\ Len(queue) = 0) => Screen = "caught_up"
        /\ Screen = "empty_deck" => Len(cards) = 0
        /\ Screen = "caught_up" => (Len(cards) > 0 /\ isInitialized /\ Len(queue) = 0)

C20_Witness ==
    /\ view = "review"
    /\ isInitialized
    /\ last.op = "delete"
    /\ last.deletes # <<>>
    /\ Len(cards) = 0
    /\ Len(queue) = 0
    /\ Screen = "empty_deck"

(***************************************************************************)
(* Claims about fresh builds, the reveal state and the position            *)
(***************************************************************************)

\* C21: a freshly built queue is in creation-timestamp ascending order, cards
\* with equal creation timestamps in the order of the store, and the shuffle
\* flag is off.
C21_FreshBuildOrdered ==
    (view = "review" /\ last.op = "init" /\ last.fresh) =>
        /\ InFreshOrder(queue)
        /\ ~isShuffled

\* C22: every card that becomes current starts unrevealed: when next, previous,
\* a jump, a rating, a deletion or Initialize changes the identity of the
\* current card, the new card is on its front with no rectangle shown; and the
\* revealed face and the shown rectangles always belong to the card at the
\* current position.
C22_NewCurrentUnrevealed ==
    /\ [][ /\ ( /\ \/ Does("next") \/ Does("prev") \/ Does("jump")
                   \/ Does("grade") \/ Does("delete") \/ Does("init")
                /\ view' = "review"
                /\ CurrentId' # 0
                /\ CurrentId' # CurrentId ) =>
                   (~isFlipped' /\ visibleOcclusions' = <<>>)
           /\ (isFlipped /\ isFlipped') => CurrentId' = CurrentId
           /\ (visibleOcclusions # <<>> /\ visibleOcclusions' # <<>>) =>
                   CurrentId' = CurrentId
         ]_vars
    /\ [](isFlipped => (view = "review" /\ currentCard # <<>>))
    /\ [](visibleOcclusions # <<>> =>
             /\ view = "review"
             /\ currentCard # <<>>
             /\ \A i \in DOMAIN visibleOcclusions :
                    Includes(currentCard[1].occlusions, visibleOcclusions[i]))

C22_Witness ==
    /\ view = "review"
    /\ last.op = "jump"
    /\ last.flipped
    /\ currentCardIndex # last.index
    /\ currentCard # <<>>
    /\ ~isFlipped
    /\ visibleOcclusions = <<>>

Shown(shown) == { shown[i] : i \in DOMAIN shown }

\* C24: Reveal on an unrevealed current card makes it revealed, keeps the
\* position, the cards of the queue and their order, and changes no schedule of
\* the store (a queued card is at most refreshed from the store); for an
\* image-occlusion card the rectangles shown become exactly the masked
\* rectangles of that card, whichever of them had been shown before.
C24_RevealShowsAll ==
    [][ (Does("reveal") /\ view = "review" /\ ~isFlipped /\ currentCard # <<>>) =>
          /\ isFlipped'
          /\ currentCardIndex' = currentCardIndex
          /\ Ids(queue') = Ids(queue)
          /\ \A i \in DOMAIN queue :
                queue'[i] = queue[i] \/ << queue'[i] >> = FindCard(cards, queue[i].id)
          /\ cards' = cards
          /\ CurrentId' = CurrentId
          /\ currentCard[1].type = "image_occlusion" =>
                /\ Shown(visibleOcclusions') = Shown(currentCard[1].occlusions)
                /\ Len(visibleOcclusions') = Cardinality(Shown(currentCard[1].occlusions))
          /\ currentCard[1].type # "image_occlusion" => visibleOcclusions' = <<>>
      ]_vars

C24_Witness ==
    /\ view = "review"
    /\ last.op = "reveal"
    /\ ~last.flipped
    /\ last.arg = 1
    /\ isFlipped
    /\ currentCard # <<>>
    /\ currentCard[1].type = "image_occlusion"
    /\ Shown(visibleOcclusions) = {1, 2}

\* C25: a click on one masked rectangle of an unrevealed image-occlusion card
\* adds exactly that rectangle to the rectangles shown (nothing changes if it is
\* shown already, and no rectangle is ever listed twice) and leaves the other
\* rectangles, the face of the card, the position and the cards of the queue as
\* they were; showing every rectangle one by one does not reveal the card.
C25_RegionAddsOne ==
    /\ [][ (Does("region") /\ ~isFlipped) =>
             /\ Shown(visibleOcclusions') = Shown(visibleOcclusions) \cup { last'.arg }
             /\ SubSeq(visibleOcclusions', 1, Len(visibleOcclusions)) = visibleOcclusions
             /\ last'.arg \in Shown(visibleOcclusions) =>
                   UNCHANGED << view, cards, reviewProgress, queue, currentCardIndex,
                                isFlipped, visibleOcclusions, isInitialized,
                                isShuffled, fxPending >>
             /\ isFlipped' = isFlipped
             /\ currentCardIndex' = currentCardIndex
             /\ Ids(queue') = Ids(queue)
             /\ cards' = cards
         ]_vars
    /\ [](Len(visibleOcclusions) = Cardinality(Shown(visibleOcclusions)))

C25_Witness ==
    /\ view = "review"
    /\ last.op = "region"
    /\ last.arg = 1
    /\ ~last.flipped
    /\ ~isFlipped
    /\ visibleOcclusions = <<2, 1>>
    /\ currentCard # <<>>
    /\ Shown(currentCard[1].occlusions) = Shown(visibleOcclusions)

(***************************************************************************)
(* Claims about the schedule of a rated card                               *)
(***************************************************************************)

\* i is the integer nearest to x / 100, halves upwards.
Nearest(i, x) == 100 * i - 50 <= x /\ x < 100 * i + 50

\* The easiness factor e (in hundredths) after a rating of quality q.
Adjusted(e, q) ==
    LET a == e + 10 - (5 - q) * (8 + (5 - q) * 2)
    IN  IF a < 130 THEN 130 ELSE a

\* C26: for a passing rating of a card with repetition >= 2 the new interval is
\* round(old interval * the easiness factor the card had before the rating);
\* the adjustment the rating makes to the easiness factor enters the interval
\* of the next passing rating, not of this one.
C26_IntervalUsesOldEfactor ==
    /\ (Rated /\ LastQuality >= 3 /\ srsPrev.repetition >= 2) =>
          /\ Nearest(srsCur.interval, srsPrev.interval * srsPrev.efactor)
          /\ srsCur.efactor = Adjusted(srsPrev.efactor, LastQuality)
    /\ (Len(srsQs) = 2 /\ srsQs[1] >= 3 /\ srsQs[2] >= 3 /\ srsStart.repetition >= 2) =>
          /\ Nearest(srsPrev.interval, srsStart.interval * srsStart.efactor)
          /\ Nearest(srsCur.interval,
                     srsPrev.interval * Adjusted(srsStart.efactor, srsQs[1]))

C26_Witness ==
    /\ Len(srsQs) = 2
    /\ srsQs = <<5, 3>>
    /\ srsStart.repetition = 2
    /\ srsStart.interval = 15
    /\ srsStart.efactor = 250
    /\ srsPrev.interval = 38
    /\ srsPrev.efactor = 260
    /\ srsCur.interval = 99
    /\ srsCur.efactor = 246

\* C27: starting from a freshly created card, after any sequence of ratings
\* with quality in 0..5 the interval is >= 1 and the due date is the time of the
\* rating plus interval whole days, hence later than the time of the rating: a
\* fresh standard-mode build made at that time does not select the card.  The
\* same step from any schedule with interval >= 1 and an easiness factor at or
\* above the floor gives interval >= 1 again.
C27_RatedCardNotDue ==
    [][ srsQs' # srsQs =>
          /\ srsStart = initialSRS =>
                /\ srsCur'.interval >= 1
                /\ srsCur'.dueDate = now + srsCur'.interval
                /\ srsCur'.dueDate > now
                /\ CardsToReview(<< Flashcard(1, srsCur') >>, "standard", now) = <<>>
          /\ (srsCur.interval >= 1 /\ srsCur.efactor >= MinEfactor) =>
                srsCur'.interval >= 1
      ]_vars

C27_Witness ==
    /\ srsStart = initialSRS
    /\ srsQs = <<4, 4, 0>>
    /\ now = 1
    /\ srsPrev.interval = 6
    /\ srsCur.interval = 1
    /\ srsCur.dueDate = 2

\* C28: with a progress store that only the engine writes, after any sequence
\* of operations the position is within 0..length-1 whenever the queue is
\* non-empty and 0 whenever it is empty; the snapshots the engine persists have
\* a position within their list of cards.
C28_PositionInRange ==
    /\ Len(queue) > 0 => currentCardIndex \in 0..(Len(queue) - 1)
    /\ Len(queue) = 0 => currentCardIndex = 0
    /\ reviewProgress # <<>> =>
          reviewProgress[1].currentIndex \in 0..(Len(reviewProgress[1].cardIds) - 1)

C28_Witness ==
    /\ view = "review"
    /\ last.op = "init"
    /\ ~last.fresh
    /\ Len(queue) = 2
    /\ currentCardIndex = 1
    /\ isShuffled

(***************************************************************************)
(* Claims about the engine and its host                                    *)
(***************************************************************************)

\* The effects of the last render are pending and the last step was itself a
\* run of effects: the engine is saving and rendering with no learner action.
SavingOnItsOwn ==
    /\ view = "review"
    /\ isInitialized
    /\ Len(queue) > 0
    /\ fxPending
    /\ last.op = "effects"

\* C29: progress persistence settles: once the learner stops acting on a
\* non-empty queue, the cycle of saving a snapshot, the host rendering and the
\* engine reconciling and saving again ends after finitely many snapshots, with
\* no effects pending.
C29_PersistenceSettles == []<>(~SavingOnItsOwn)

\* C30: a schedule written by a rating is not lost to an edit of the same card:
\* when the edit dialog of a card is open, the card is rated, and the edit is
\* saved next, the store holds the schedule the rating computed and not the one
\* the dialog captured when it was opened.
C30_GradeSurvivesEdit ==
    [][ ( /\ Does("save")
          /\ last.op = "grade"
          /\ last.updates # <<>>
          /\ editingCard # <<>>
          /\ last.updates[1].id = editingCard[1].id ) =>
            /\ FindCard(cards', editingCard[1].id) # <<>>
            /\ FindCard(cards', editingCard[1].id)[1].srs = last.updates[1].srs
      ]_vars

====
